---- MODULE Spec2Model ----
(***************************************************************************)
(* Model of django-formwizard: the FormWizard controller (forms.py) and    *)
(* the request-dispatch views (views.py).  The storage backend             *)
(* (formwizard.storage) is modelled from its interface contract.           *)
(***************************************************************************)
EXTENDS Integers, Sequences, FiniteSets, TLC

VARIABLES
    wizard,          \* the FormWizard object: configuration input and form_list
    wizard_storage,  \* wizard.storage / wizard.request: the session bound last
    storage,         \* storage backend: session -> Wizard Run State
    last,            \* record of the operation handled last (history)
    progress,        \* session -> number of in-order valid submissions since fresh
    threads          \* per-thread position of an interleaved request

vars == <<wizard, wizard_storage, storage, last, progress, threads>>

(***************************************************************************)
(* Bounds                                                                  *)
(***************************************************************************)
MaxSteps == 3        \* longest wizard driven through requests
MaxEntries == 3      \* longest form_list handed to the constructor
MaxRequests == 2     \* requests each thread handles in the interleaved runs

None == "None"                       \* Python's None
Sessions == {"A", "B"}               \* end-user sessions
Unconfigured == "zz"                 \* a step name no wizard here configures
RawValues == {"", "x", "7"}          \* raw submitted values of the single field
FormClasses == {"CharForm", "IntForm", "FormSet"}

\* request.POST: the go-back key form_prev_step (None when the key is absent)
\* and the one submitted field, named <prefix>-field
NoData == [prev |-> None, prefix |-> None, value |-> None]   \* data=None
NoForm == [step |-> None, cls |-> None, data |-> NoData]

(***************************************************************************)
(* The form/validation collaborator (django.forms), single-field forms.    *)
(***************************************************************************)
\* prefix of the form of a step: str(step)
GetFormPrefix(step) == step

\* field validation of a form class against a raw value
FieldValid(cls, value) ==
    IF cls = "IntForm" THEN value = "7" ELSE value # ""

\* Python values of cleaned data: unicode, int, dict, list and None
PyUnicode(text) == [type |-> "unicode", text |-> text, int |-> 0, rows |-> <<>>]
PyInt(i) == [type |-> "int", text |-> "", int |-> i, rows |-> <<>>]
PyDict(d) == [type |-> "dict", text |-> "", int |-> 0, rows |-> <<d>>]
PyList(rows) == [type |-> "list", text |-> "", int |-> 0, rows |-> rows]
PyNone == [type |-> "NoneType", text |-> "", int |-> 0, rows |-> <<>>]

\* field cleaning: IntegerField returns int(value), CharField the text
FieldClean(cls, value) ==
    IF cls = "IntForm" THEN PyInt(IF value = "7" THEN 7 ELSE 0)
    ELSE PyUnicode(value)

\* form.cleaned_data: the dict of a form, the list of dicts of a formset
CleanedData(form) ==
    IF form.cls = "FormSet"
    THEN PyList(<<[field |-> FieldClean(form.cls, form.data.value)]>>)
    ELSE PyDict([field |-> FieldClean(form.cls, form.data.value)])

\* form.is_valid(): an unbound form (data None) is never valid; a bound
\* form looks its field up under its own prefix
IsValid(form) ==
    /\ form.data # NoData
    /\ form.data.prefix = GetFormPrefix(form.step)
    /\ FieldValid(form.cls, form.data.value)

(***************************************************************************)
(* FormWizard.__init__                                                     *)
(***************************************************************************)
\* SortedDict.__setitem__: a new key is appended to keyOrder, an existing
\* key keeps its position and has its value overwritten
SortedDictSet(d, key, value) ==
    [keyOrder |-> IF key \in DOMAIN d.forms THEN d.keyOrder
                  ELSE Append(d.keyOrder, key),
     forms |-> [k \in (DOMAIN d.forms) \cup {key} |->
                   IF k = key THEN value ELSE d.forms[k]]]

EmptySortedDict == [keyOrder |-> <<>>, forms |-> [k \in {} |-> None]]

\* the loop of __init__ over range(len(form_list)); i is the Python index
RECURSIVE InitLoop(_, _, _)
InitLoop(form_list, d, i) ==
    IF i >= Len(form_list) THEN d
    ELSE LET form == form_list[i + 1]
         IN  InitLoop(form_list,
                      IF form.tuple
                      THEN SortedDictSet(d, form.name, form.cls)
                      ELSE SortedDictSet(d, ToString(i), form.cls),
                      i + 1)

\* FormWizard(storage, form_list, done_view): the constructed object, or
\* the AssertionError of an empty form_list
FormWizardInit(form_list, done_view) ==
    IF ~(Len(form_list) > 0)
    THEN [status |-> "AssertionError", input |-> form_list,
          form_list |-> EmptySortedDict, done_view |-> done_view]
    ELSE [status |-> "ok", input |-> form_list,
          form_list |-> InitLoop(form_list, EmptySortedDict, 0),
          done_view |-> done_view]

Keys(w) == DOMAIN w.form_list.forms
KeyOrder(w) == w.form_list.keyOrder

(***************************************************************************)
(* Storage backend interface (formwizard.storage), one run state           *)
(***************************************************************************)
NoContext == [k \in {"x", "y"} |-> None]

FreshRunState(w) ==
    [current_step |-> None,
     step_data |-> [k \in Keys(w) |-> NoData],
     extra_context |-> NoContext]

GetCurrentStep(rs) == rs.current_step
SetCurrentStep(rs, step) == [rs EXCEPT !.current_step = step]
GetStepData(rs, step) ==
    IF step \in DOMAIN rs.step_data THEN rs.step_data[step] ELSE NoData
SetStepData(rs, step, data) ==
    [rs EXCEPT !.step_data =
        [k \in (DOMAIN rs.step_data) \cup {step} |->
            IF k = step THEN data ELSE rs.step_data[k]]]
GetExtraContextData(rs) == rs.extra_context
SetExtraContextData(rs, context) == [rs EXCEPT !.extra_context = context]
StorageReset(w, rs) == FreshRunState(w)

(***************************************************************************)
(* Responses: a rendered step, the completion handler's result, or the     *)
(* exception that ended the call                                           *)
(***************************************************************************)
RenderResp(step, form) ==
    [kind |-> "render", form_step |-> step, form |-> form, forms |-> <<>>,
     err |-> None, updated |-> FALSE]
DoneResp(forms) ==
    [kind |-> "done", form_step |-> None, form |-> NoForm, forms |-> forms,
     err |-> None, updated |-> FALSE]
ErrorResp(e) ==
    [kind |-> "error", form_step |-> None, form |-> NoForm, forms |-> <<>>,
     err |-> e, updated |-> FALSE]
NoResp == ErrorResp(None)
\* the value a call returned
ValueResp(v) ==
    [kind |-> "value", form_step |-> None, form |-> NoForm, forms |-> <<>>,
     err |-> None, updated |-> FALSE, value |-> v]

Result(rs, resp) == [rs |-> rs, resp |-> resp]

(***************************************************************************)
(* FormWizard: step adjacency                                              *)
(***************************************************************************)
GetFirstStep(w) == KeyOrder(w)[1]
GetLastStep(w) == KeyOrder(w)[Len(KeyOrder(w))]

\* storage.get_current_step() or self.get_first_step()
DetermineStep(w, rs) ==
    IF GetCurrentStep(rs) \in {None, ""} THEN GetFirstStep(w)
    ELSE GetCurrentStep(rs)

\* keyOrder.index(step), zero-based; the step is in keyOrder
Index(w, step) ==
    (CHOOSE i \in 1..Len(KeyOrder(w)) : KeyOrder(w)[i] = step) - 1

GetNextStep(w, rs, step) ==
    LET s == IF step = None THEN DetermineStep(w, rs) ELSE step
        key == Index(w, s) + 1
    IN  IF Len(KeyOrder(w)) > key THEN KeyOrder(w)[key + 1] ELSE None

\* get_prev_step without the test of the first step: Python's
\* keyOrder[-1] is the last step
GetPrevStep_NoBoundary(w, rs, step) ==
    LET s == IF step = None THEN DetermineStep(w, rs) ELSE step
        key == Index(w, s) - 1
    IN  IF key < 0 THEN KeyOrder(w)[Len(KeyOrder(w)) + key + 1]
        ELSE KeyOrder(w)[key + 1]

GetPrevStep(w, rs, step) ==
    LET s == IF step = None THEN DetermineStep(w, rs) ELSE step
        key == Index(w, s) - 1
    IN  IF key < 0 THEN None ELSE KeyOrder(w)[key + 1]

GetStepIndex(w, rs, step) ==
    LET s == IF step = None THEN DetermineStep(w, rs) ELSE step
    IN  Index(w, s)

(***************************************************************************)
(* FormWizard: forms and rendering.  A call is modelled with its argument  *)
(* list (after self), so that Python's arity check is part of the call.    *)
(***************************************************************************)
\* get_form(step, data) for a step of form_list
GetForm(w, rs, step, data) ==
    LET s == IF step = None THEN DetermineStep(w, rs) ELSE step
    IN  [step |-> s, cls |-> w.form_list.forms[s], data |-> data]

GetFormStepData(form) == form.data
ProcessStep(form) == GetFormStepData(form)

\* render_template(request, form): the context names the current step;
\* get_prev_step/get_next_step/get_step_index raise ValueError when the
\* current step is not in keyOrder
RenderTemplate(w, rs, request, form) ==
    IF DetermineStep(w, rs) \notin Keys(w)
    THEN Result(rs, ErrorResp("ValueError"))
    ELSE Result(rs, RenderResp(DetermineStep(w, rs), form))

\* render(self, request, form)
Render(w, rs, args) ==
    IF Len(args) # 2 THEN Result(rs, ErrorResp("TypeError"))
    ELSE RenderTemplate(w, rs, args[1], args[2])

\* render_next_step that renders the next step unbound, ignoring its stored data
RenderNextStep_Unbound(w, rs, args) ==
    IF Len(args) < 2 THEN Result(rs, ErrorResp("TypeError"))
    ELSE IF DetermineStep(w, rs) \notin Keys(w)
    THEN Result(rs, ErrorResp("ValueError"))
    ELSE LET next_step == GetNextStep(w, rs, None)
             new_form == GetForm(w, rs, next_step, NoData)
             rs1 == SetCurrentStep(rs, next_step)
         IN  Render(w, rs1, <<args[1], new_form>>)

\* render_next_step(self, request, form, *args, **kwargs)
RenderNextStep(w, rs, args) ==
    IF Len(args) < 2 THEN Result(rs, ErrorResp("TypeError"))
    ELSE IF DetermineStep(w, rs) \notin Keys(w)
    THEN Result(rs, ErrorResp("ValueError"))
    ELSE LET next_step == GetNextStep(w, rs, None)
             new_form == GetForm(w, rs, next_step, GetStepData(rs, next_step))
             rs1 == SetCurrentStep(rs, next_step)
         IN  Render(w, rs1, <<args[1], new_form>>)

\* render_backward with the form built before the step is stored
RenderBackward_StaleForm(w, rs, request) ==
    IF request.POST.prev = None THEN Result(rs, ErrorResp("KeyError"))
    ELSE LET rs1 == SetCurrentStep(rs, request.POST.prev)
             step == DetermineStep(w, rs)
         IN  IF step \notin Keys(w) THEN Result(rs1, ErrorResp("KeyError"))
             ELSE Render(w, rs1,
                         <<request, GetForm(w, rs, None, GetStepData(rs, step))>>)

\* render_backward(self, request): request.POST['form_prev_step'] raises
\* KeyError when the key is absent; the step is stored before the form of
\* the (new) current step is looked up
RenderBackward(w, rs, request) ==
    IF request.POST.prev = None THEN Result(rs, ErrorResp("KeyError"))
    ELSE LET rs1 == SetCurrentStep(rs, request.POST.prev)
             step == DetermineStep(w, rs1)
         IN  IF step \notin Keys(w) THEN Result(rs1, ErrorResp("KeyError"))
             ELSE Render(w, rs1,
                         <<request, GetForm(w, rs1, None, GetStepData(rs1, step))>>)

\* render_revalidation_failure(self, request, step, form)
RenderRevalidationFailure(w, rs, request, step, form) ==
    Render(w, SetCurrentStep(rs, step), <<request, form>>)

\* the forms of render_done's loop, in keyOrder
FinalForm(w, rs, i) ==
    GetForm(w, rs, KeyOrder(w)[i], GetStepData(rs, KeyOrder(w)[i]))

\* done(request, form_list): the done_view given to the constructor, or
\* the method that raises NotImplementedError
Done(w, rs, request, final_form_list) ==
    IF w.done_view THEN Result(rs, DoneResp(final_form_list))
    ELSE Result(rs, ErrorResp("NotImplementedError"))

\* render_done that hands the stored forms over without revalidating them
RenderDone_NoRevalidation(w, rs, args) ==
    IF Len(args) < 2 THEN Result(rs, ErrorResp("TypeError"))
    ELSE Done(w, rs, args[1], [i \in 1..Len(KeyOrder(w)) |-> FinalForm(w, rs, i)])

\* render_done(self, request, form, *args, **kwargs)
RenderDone(w, rs, args) ==
    IF Len(args) < 2 THEN Result(rs, ErrorResp("TypeError"))
    ELSE LET n == Len(KeyOrder(w))
             invalid == {i \in 1..n : ~IsValid(FinalForm(w, rs, i))}
         IN  IF invalid # {}
             THEN LET i == CHOOSE j \in invalid : \A k \in invalid : j <= k
                  IN  RenderRevalidationFailure(w, rs, args[1], KeyOrder(w)[i],
                                                FinalForm(w, rs, i))
             ELSE Done(w, rs, args[1], [i \in 1..n |-> FinalForm(w, rs, i)])

(***************************************************************************)
(* FormWizard: cleaned data                                                *)
(***************************************************************************)
\* get_cleaned_data_for_step without the is_valid() test
GetCleanedDataForStep_NoValidation(w, rs, step) ==
    IF step \in Keys(w)
    THEN Result(rs, ValueResp(CleanedData(GetForm(w, rs, step, GetStepData(rs, step)))))
    ELSE Result(rs, ValueResp(PyNone))

\* get_cleaned_data_for_step(self, step)
GetCleanedDataForStep(w, rs, step) ==
    IF step \in Keys(w)
    THEN LET form_obj == GetForm(w, rs, step, GetStepData(rs, step))
         IN  IF IsValid(form_obj) THEN Result(rs, ValueResp(CleanedData(form_obj)))
             ELSE Result(rs, ValueResp(PyNone))
    ELSE Result(rs, ValueResp(PyNone))

\* cleaned_dict.update(other) on dicts held as functions over their keys
CleanedDictUpdate(d, other) ==
    [k \in (DOMAIN d) \cup (DOMAIN other) |->
        IF k \in DOMAIN other THEN other[k] ELSE d[k]]

\* 'formset-%s' % form_key
FormsetKey(form_key) == "formset-" \o form_key

\* get_all_cleaned_data in which a key already merged is kept
GetAllCleanedData_FirstWins(w, rs) ==
    LET cleaned_dict[i \in 0..Len(KeyOrder(w))] ==
            IF i = 0 THEN [k \in {} |-> PyNone]
            ELSE LET form_key == KeyOrder(w)[i]
                     form_obj == GetForm(w, rs, form_key, GetStepData(rs, form_key))
                 IN  IF IsValid(form_obj)
                     THEN IF CleanedData(form_obj).type = "list"
                          THEN CleanedDictUpdate(
                                   [k \in {FormsetKey(form_key)} |-> CleanedData(form_obj)],
                                   cleaned_dict[i - 1])
                          ELSE CleanedDictUpdate(CleanedData(form_obj).rows[1],
                                                 cleaned_dict[i - 1])
                     ELSE cleaned_dict[i - 1]
    IN  Result(rs, ValueResp(PyDict(cleaned_dict[Len(KeyOrder(w))])))

\* get_all_cleaned_data(self): cleaned_dict[i] is the dict after the i-th
\* form_key of the loop
GetAllCleanedData(w, rs) ==
    LET cleaned_dict[i \in 0..Len(KeyOrder(w))] ==
            IF i = 0 THEN [k \in {} |-> PyNone]
            ELSE LET form_key == KeyOrder(w)[i]
                     form_obj == GetForm(w, rs, form_key, GetStepData(rs, form_key))
                 IN  IF IsValid(form_obj)
                     THEN IF CleanedData(form_obj).type = "list"
                          THEN CleanedDictUpdate(
                                   cleaned_dict[i - 1],
                                   [k \in {FormsetKey(form_key)} |-> CleanedData(form_obj)])
                          ELSE CleanedDictUpdate(cleaned_dict[i - 1],
                                                 CleanedData(form_obj).rows[1])
                     ELSE cleaned_dict[i - 1]
    IN  Result(rs, ValueResp(PyDict(cleaned_dict[Len(KeyOrder(w))])))

(***************************************************************************)
(* FormWizard: extra context                                               *)
(***************************************************************************)
\* dict.update(other): a dict is a function over the keys in use, None
\* marking a key the dict does not hold
DictUpdate(d, other) ==
    [k \in DOMAIN d |-> IF other[k] # None THEN other[k] ELSE d[k]]

GetExtraContext(w, rs) == GetExtraContextData(rs)

\* update_extra_context in which the stored keys win over the new ones
UpdateExtraContext_StoredWins(w, rs, new_context) ==
    Result(SetExtraContextData(rs, DictUpdate(new_context, GetExtraContext(w, rs))),
           NoResp)

\* update_extra_context(self, new_context)
UpdateExtraContext(w, rs, new_context) ==
    LET context == DictUpdate(GetExtraContext(w, rs), new_context)
    IN  Result(SetExtraContextData(rs, context), NoResp)

(***************************************************************************)
(* views.py                                                                *)
(***************************************************************************)
\* wizard_default_step(request, wizard)
WizardDefaultStep(w, rs, request) ==
    IF DetermineStep(w, rs) \notin Keys(w)
    THEN Result(rs, ErrorResp("KeyError"))
    ELSE LET form == GetForm(w, rs, None, request.POST)
         IN  IF IsValid(form)
             THEN LET rs1 == SetStepData(rs, DetermineStep(w, rs), ProcessStep(form))
                  IN  IF DetermineStep(w, rs1) = GetLastStep(w)
                      THEN RenderDone(w, rs1, <<form>>)
                      ELSE RenderNextStep(w, rs1, <<w, form>>)
             ELSE Render(w, rs, <<form>>)

DefaultStepView == "formwizard.views.wizard_default_step"

\* the response of a step view of the integrator: it is not part of this
\* code, and is taken to answer without touching the run state
CustomResp(name) ==
    [kind |-> "custom", form_step |-> None, form |-> NoForm, forms |-> <<>>,
     err |-> None, updated |-> FALSE, view |-> name]

\* get_callable(step_views[...])(request, wizard)
StepView(name, w, rs, request) ==
    IF name = DefaultStepView THEN WizardDefaultStep(w, rs, request)
    ELSE Result(rs, CustomResp(name))

\* _process_request without the form_list.has_key test of the go-back key
ProcessRequest_NoHasKey(w, rs, request, step_views) ==
    IF request.method = "GET"
    THEN Result(rs, ErrorResp("AttributeError"))
    ELSE IF request.POST.prev # None
    THEN RenderBackward(w, rs, request)
    ELSE StepView(step_views["default"], w, rs, request)

\* _process_request storing a valid submission for the step being left
\* before it goes back
ProcessRequest_StoreThenBack(w, rs, request, step_views) ==
    IF request.method = "GET"
    THEN Result(rs, ErrorResp("AttributeError"))
    ELSE IF request.POST.prev # None /\ request.POST.prev \in Keys(w)
    THEN LET form == GetForm(w, rs, None, request.POST)
         IN  IF IsValid(form)
             THEN RenderBackward(w, SetStepData(rs, DetermineStep(w, rs),
                                                ProcessStep(form)), request)
             ELSE RenderBackward(w, rs, request)
    ELSE LET current_step == GetCurrentStep(rs)
         IN  IF current_step \in DOMAIN step_views
             THEN StepView(step_views[current_step], w, rs, request)
             ELSE StepView(step_views["default"], w, rs, request)

\* _process_request(request, wizard, step_views)
ProcessRequest(w, rs, request, step_views) ==
    IF request.method = "GET"
    THEN \* wizard.process_reset(): FormWizard has no attribute process_reset
         Result(rs, ErrorResp("AttributeError"))
    ELSE IF request.POST.prev # None /\ request.POST.prev \in Keys(w)
    THEN RenderBackward(w, rs, request)
    ELSE LET current_step == GetCurrentStep(rs)
         IN  IF current_step \in DOMAIN step_views
             THEN StepView(step_views[current_step], w, rs, request)
             ELSE StepView(step_views["default"], w, rs, request)

\* storage.update_response(response)
UpdateResponse(resp) == [resp EXCEPT !.updated = TRUE]

\* wizard(request, wizard, step_views) after _init_wizard_view bound the
\* storage whose run state is rs; an exception skips update_response
WizardViewWith(w, rs, request, step_views) ==
    LET views == IF "default" \in DOMAIN step_views THEN step_views
                 ELSE [k \in (DOMAIN step_views) \cup {"default"} |->
                          IF k = "default" THEN DefaultStepView ELSE step_views[k]]
        r == ProcessRequest(w, rs, request, views)
    IN  IF r.resp.kind = "error" THEN r
        ELSE Result(r.rs, UpdateResponse(r.resp))

\* wizard(request, wizard): step_views={}
WizardView(w, rs, request) ==
    WizardViewWith(w, rs, request, [k \in {} |-> DefaultStepView])

(***************************************************************************)
(* The state machine                                                       *)
(***************************************************************************)
StepNames == <<"a", "b", "c", "d", "e">>
StepClass(i) ==
    IF i % 3 = 0 THEN "FormSet" ELSE IF i % 3 = 2 THEN "IntForm" ELSE "CharForm"

\* form_list = [("a", CharForm), ("b", IntForm), ...] of n entries
LinearFormList(n) ==
    [i \in 1..n |-> [tuple |-> TRUE, name |-> StepNames[i], cls |-> StepClass(i)]]

\* the requests an end user can send to a wizard: a submission of the field
\* (with or without a go-back key naming no step of the wizard), and a
\* go-back to a step of the wizard that also carries a valid field
Posts(w) ==
    [prev : {None, Unconfigured}, prefix : Keys(w), value : RawValues]
    \cup [prev : Keys(w), prefix : Keys(w), value : {"7"}]
GetRequest == [method |-> "GET", POST |-> NoData]
PostRequest(post) == [method |-> "POST", POST |-> post]

\* a direct call of a controller operation with argument arg
CallRequest(arg) == [method |-> "CALL", POST |-> NoData, arg |-> arg]

\* the submissions without a go-back key
PlainPosts(w) == {post \in Posts(w) : post.prev = None}

Threads == Sessions
IdleThread == [pc |-> "idle", request |-> GetRequest, resp |-> NoResp, handled |-> 0]

Last(op, s, request, resp) ==
    [op |-> op, session |-> s, request |-> request, pre |-> storage, resp |-> resp]

\* progress of session s along "valid data for each step in configured
\* order, starting from a fresh run state" when the request is handled
Progress(s, request, rs1) ==
    LET k == progress[s]
        n == Len(KeyOrder(wizard))
    IN  IF request.method = "GET"
        THEN (IF rs1 = FreshRunState(wizard) THEN 0 ELSE -1)
        ELSE IF /\ k >= 0 /\ k < n
                /\ request.POST.prev = None
                /\ IsValid([step |-> KeyOrder(wizard)[k + 1],
                            cls |-> wizard.form_list.forms[KeyOrder(wizard)[k + 1]],
                            data |-> request.POST])
        THEN k + 1
        ELSE -1

InitRun ==
    /\ storage = [s \in Sessions |-> FreshRunState(wizard)]
    /\ wizard_storage = None
    /\ last = [op |-> "init", session |-> None, request |-> GetRequest,
               pre |-> storage, resp |-> NoResp]
    /\ progress = [s \in Sessions |-> 0]
    /\ threads = [t \in Threads |-> IdleThread]

Init ==
    /\ wizard \in {FormWizardInit(LinearFormList(n), TRUE) : n \in 1..MaxSteps}
    /\ InitRun

\* one request handled start to end by the wizard view
Handle(s, request) ==
    LET r == WizardView(wizard, storage[s], request)
    IN  /\ wizard.status = "ok"
        /\ wizard_storage' = s
        /\ storage' = [storage EXCEPT ![s] = r.rs]
        /\ last' = Last(request.method, s, request, r.resp)
        /\ progress' = [progress EXCEPT ![s] = Progress(s, request, r.rs)]
        /\ UNCHANGED <<wizard, threads>>

Get(s) == Handle(s, GetRequest)
Post(s, post) == Handle(s, PostRequest(post))

\* the session whose requests Spec follows
User == "A"

Next ==
    \/ Get(User)
    \/ \E post \in Posts(wizard) : Post(User, post)

Spec == Init /\ [][Next]_vars

(***************************************************************************)
(* SpecController: the requests, plus the controller and storage           *)
(* operations called directly by the integrator's code                     *)
(***************************************************************************)
Direct(op, s, request, r) ==
    /\ wizard.status = "ok"
    /\ wizard_storage' = s
    /\ storage' = [storage EXCEPT ![s] = r.rs]
    /\ last' = Last(op, s, request, r.resp)
    /\ progress' = [progress EXCEPT ![s] = -1]
    /\ UNCHANGED <<wizard, threads>>

\* wizard.render_backward(request) with request.POST['form_prev_step'] = prev
CallRenderBackward(s, prev) ==
    LET request == PostRequest([prev |-> prev, prefix |-> None, value |-> None])
    IN  Direct("render_backward", s, request,
               RenderBackward(wizard, storage[s], request))

\* wizard.render_done(request, form)
CallRenderDone(s) ==
    Direct("render_done", s, PostRequest(NoData),
           RenderDone(wizard, storage[s], <<PostRequest(NoData), NoForm>>))

\* the stored data of a step rewritten outside the wizard (a client-side
\* store edited by the client): storage.set_step_data(step, data)
TamperStepData(s, step, value) ==
    Direct("set_step_data", s, PostRequest(NoData),
           Result(SetStepData(storage[s], step,
                              [prev |-> None, prefix |-> step, value |-> value]),
                  NoResp))

\* wizard.get_cleaned_data_for_step(step)
CallGetCleanedDataForStep(s, step) ==
    Direct("get_cleaned_data_for_step", s, CallRequest(step),
           GetCleanedDataForStep(wizard, storage[s], step))

\* wizard.get_all_cleaned_data()
CallGetAllCleanedData(s) ==
    Direct("get_all_cleaned_data", s, CallRequest(None),
           GetAllCleanedData(wizard, storage[s]))

\* wizard.render_next_step(request, form)
CallRenderNextStep(s) ==
    Direct("render_next_step", s, PostRequest(NoData),
           RenderNextStep(wizard, storage[s], <<PostRequest(NoData), NoForm>>))

NextController ==
    \/ Get(User)
    \/ \E post \in PlainPosts(wizard) : Post(User, post)
    \/ \E prev \in Keys(wizard) \cup {Unconfigured} : CallRenderBackward(User, prev)
    \/ CallRenderDone(User)
    \/ \E step \in Keys(wizard), value \in {""} : TamperStepData(User, step, value)
    \/ \E step \in Keys(wizard) \cup {Unconfigured} : CallGetCleanedDataForStep(User, step)
    \/ CallRenderNextStep(User)
    \/ CallGetAllCleanedData(User)

SpecController == Init /\ [][NextController]_vars

(***************************************************************************)
(* SpecContext: submissions and go-back requests, with the extra context   *)
(* updated by the integrator's code in between                             *)
(***************************************************************************)
\* the patches {"x": 1}, {"y": 2}, {"x": 3}
ContextPatches ==
    {[x |-> "1", y |-> None], [x |-> None, y |-> "2"], [x |-> "3", y |-> None]}

\* the go-back requests naming a step of the wizard
GoBackPosts(w) == {post \in Posts(w) : post.prev \in Keys(w)}

\* wizard.update_extra_context(patch)
CallUpdateExtraContext(s, patch) ==
    Direct("update_extra_context", s, CallRequest(patch),
           UpdateExtraContext(wizard, storage[s], patch))

NextContext ==
    \/ \E post \in PlainPosts(wizard) : Post(User, post)
    \/ \E post \in GoBackPosts(wizard) : Post(User, post)
    \/ \E patch \in ContextPatches : CallUpdateExtraContext(User, patch)

SpecContext == Init /\ [][NextContext]_vars

(***************************************************************************)
(* SpecViews: requests through a URL that registers step views             *)
(***************************************************************************)
CustomStepView == "myapp.views.custom_step"

\* the step_views a URL passes: none, or a view for the first or last step
StepViewChoices(w) ==
    {[k \in K |-> CustomStepView] : K \in {{}, {GetFirstStep(w)}, {GetLastStep(w)}}}

\* wizard(request, wizard, step_views) for a POST request
PostWith(s, post, step_views) ==
    LET request == PostRequest(post)
        r == WizardViewWith(wizard, storage[s], request, step_views)
    IN  /\ wizard.status = "ok"
        /\ wizard_storage' = s
        /\ storage' = [storage EXCEPT ![s] = r.rs]
        /\ last' = Last("POST", s,
                        [method |-> "POST", POST |-> post, step_views |-> step_views],
                        r.resp)
        /\ progress' = [progress EXCEPT ![s] = -1]
        /\ UNCHANGED <<wizard, threads>>

NextViews ==
    \/ \E post \in PlainPosts(wizard), step_views \in StepViewChoices(wizard) :
          PostWith(User, post, step_views)
    \/ \E post \in GoBackPosts(wizard) :
          PostWith(User, post, [k \in {} |-> DefaultStepView])

SpecViews == Init /\ [][NextViews]_vars

(***************************************************************************)
(* SpecConfig: the constructor applied to every short form_list            *)
(***************************************************************************)
EntryNames == {"a", "0", "1"}
Entries ==
    {[tuple |-> TRUE, name |-> n, cls |-> c] : n \in EntryNames, c \in FormClasses}
    \cup {[tuple |-> FALSE, name |-> None, cls |-> c] : c \in FormClasses}

RECURSIVE SeqsUpTo(_, _)
SeqsUpTo(S, n) ==
    IF n = 0 THEN {<<>>}
    ELSE LET shorter == SeqsUpTo(S, n - 1)
         IN  shorter \cup {Append(q, x) : q \in shorter, x \in S}

InitConfig ==
    /\ wizard \in {[status |-> "unconfigured", input |-> form_list,
                    form_list |-> EmptySortedDict, done_view |-> done_view] :
                   form_list \in SeqsUpTo(Entries, MaxEntries),
                   done_view \in BOOLEAN}
    /\ InitRun

Configure ==
    /\ wizard.status = "unconfigured"
    /\ wizard' = FormWizardInit(wizard.input, wizard.done_view)
    /\ UNCHANGED <<wizard_storage, storage, last, progress, threads>>

SpecConfig == InitConfig /\ [][Configure]_vars

(***************************************************************************)
(* SpecThreads: two threads handle requests of two sessions against the    *)
(* one wizard object, interleaved between the statements of views.wizard   *)
(***************************************************************************)
\* _init_wizard_view(request, wizard): wizard.request and wizard.storage
\* are attributes of the shared wizard object
InitWizardView(t, request) ==
    /\ wizard.status = "ok"
    /\ threads[t].pc = "idle"
    /\ threads[t].handled < MaxRequests
    /\ wizard_storage' = t
    /\ threads' = [threads EXCEPT ![t].pc = "bound", ![t].request = request,
                                  ![t].resp = NoResp]
    /\ UNCHANGED <<wizard, storage, last, progress>>

\* response = _process_request(request, wizard, step_views): every storage
\* access goes through wizard.storage
ThreadProcessRequest(t) ==
    LET step_views == [k \in {"default"} |-> "formwizard.views.wizard_default_step"]
        r == ProcessRequest(wizard, storage[wizard_storage], threads[t].request,
                            step_views)
    IN  /\ threads[t].pc = "bound"
        /\ storage' = [storage EXCEPT ![wizard_storage] = r.rs]
        /\ last' = Last(threads[t].request.method, t, threads[t].request, r.resp)
        /\ threads' = [threads EXCEPT
                          ![t].pc = IF r.resp.kind = "error" THEN "idle" ELSE "processed",
                          ![t].resp = r.resp,
                          ![t].handled = IF r.resp.kind = "error" THEN @ + 1 ELSE @]
        /\ UNCHANGED <<wizard, wizard_storage, progress>>

\* response = wizard.storage.update_response(response); return response
ThreadUpdateResponse(t) ==
    /\ threads[t].pc = "processed"
    /\ threads' = [threads EXCEPT ![t].pc = "idle",
                                  ![t].resp = UpdateResponse(@),
                                  ![t].handled = @ + 1]
    /\ UNCHANGED <<wizard, wizard_storage, storage, last, progress>>

NextThreads ==
    \/ \E t \in Threads : InitWizardView(t, GetRequest)
    \/ \E t \in Threads, post \in PlainPosts(wizard) : InitWizardView(t, PostRequest(post))
    \/ \E t \in Threads : ThreadProcessRequest(t)
    \/ \E t \in Threads : ThreadUpdateResponse(t)

SpecThreads == Init /\ [][NextThreads]_vars

(***************************************************************************)
(* Properties                                                              *)
(***************************************************************************)
\* the run state of the acting session before and after the last operation
Before == last.pre[last.session]
After == storage[last.session]

\* whether the data stored for a step validates against the step's form
StoredValid(rs, step) ==
    /\ rs.step_data[step] # NoData
    /\ rs.step_data[step].prefix = step
    /\ FieldValid(wizard.form_list.forms[step], rs.step_data[step].value)

\* whether a submission validates against the form of a step
SubmissionValid(post, step) ==
    /\ post.prefix = step
    /\ FieldValid(wizard.form_list.forms[step], post.value)

\* the step a run state is at: the stored one, the first step when none is
CurrentOf(rs) ==
    IF rs.current_step = None THEN wizard.form_list.keyOrder[1] ELSE rs.current_step

NumSteps == Len(wizard.form_list.keyOrder)

\* C1: from a fresh run state, valid data POSTed for each step in configured
\* order makes current_step run through s1, ..., sn, and the valid
\* submission of sn invokes the completion handler once, with one validated
\* form per configured step in configured order.
C1_LinearRunCompletes ==
    (last.op = "POST" /\ progress[last.session] >= 1) =>
        LET k == progress[last.session]
        IN  /\ CurrentOf(Before) = wizard.form_list.keyOrder[k]
            /\ k < NumSteps => CurrentOf(After) = wizard.form_list.keyOrder[k + 1]
            /\ k = NumSteps =>
                  /\ last.resp.kind = "done"
                  /\ Len(last.resp.forms) = NumSteps
                  /\ \A i \in 1..NumSteps :
                        /\ last.resp.forms[i].step = wizard.form_list.keyOrder[i]
                        /\ StoredValid(After, wizard.form_list.keyOrder[i])
                        /\ last.resp.forms[i].data =
                               After.step_data[wizard.form_list.keyOrder[i]]

\* C2: finalize() invokes the completion handler only if the stored data of
\* every configured step validates; otherwise it sets current_step to the
\* first invalid step in configured order, returns a render of that step
\* and does not invoke the completion handler.
C2_FinalizeRevalidates ==
    last.op = "render_done" =>
        LET invalid == {i \in 1..NumSteps :
                           ~StoredValid(Before, wizard.form_list.keyOrder[i])}
        IN  /\ last.resp.kind = "done" => invalid = {}
            /\ invalid # {} =>
                  \E i \in invalid :
                     /\ \A j \in invalid : i <= j
                     /\ After.current_step = wizard.form_list.keyOrder[i]
                     /\ After.step_data = Before.step_data
                     /\ last.resp.kind = "render"
                     /\ last.resp.form_step = wizard.form_list.keyOrder[i]
                     /\ last.resp.form.step = wizard.form_list.keyOrder[i]
                     /\ last.resp.form.data =
                            Before.step_data[wizard.form_list.keyOrder[i]]

\* a finalize() that found a tampered, earlier valid step invalid and went
\* back to it from a later step
C2_Witness ==
    /\ last.op = "render_done"
    /\ last.resp.kind = "render"
    /\ NumSteps >= 3
    /\ Before.current_step = wizard.form_list.keyOrder[NumSteps]
    /\ After.current_step = wizard.form_list.keyOrder[2]
    /\ Before.step_data[After.current_step].value = ""
    /\ StoredValid(Before, wizard.form_list.keyOrder[NumSteps])

\* C3: after any sequence of requests the current_step held in storage is
\* absent or one of the configured Step Identifiers.
C3_CurrentStepConfigured ==
    \A s \in Sessions :
        storage[s].current_step \in {None} \cup DOMAIN wizard.form_list.forms

\* a go-back request naming an unconfigured step was handled at the last step
C3_Witness ==
    /\ last.op = "POST"
    /\ last.request.POST.prev = Unconfigured
    /\ NumSteps >= 2
    /\ After.current_step = wizard.form_list.keyOrder[NumSteps]

\* C4: a submission that does not validate against the current step's form
\* is answered by a render of the same step with the submitted data, and
\* current_step and step_data are unchanged.
C4_InvalidSubmissionRerenders ==
    (/\ last.op = "POST"
     /\ last.request.POST.prev \notin DOMAIN wizard.form_list.forms
     /\ ~SubmissionValid(last.request.POST, CurrentOf(Before))) =>
        /\ last.resp.kind = "render"
        /\ last.resp.form_step = CurrentOf(Before)
        /\ last.resp.form.data = last.request.POST
        /\ After.current_step = Before.current_step
        /\ After.step_data = Before.step_data

\* C5: a go-back request naming a configured step P sets current_step to P
\* and returns a render of P's form built from P's previously stored data.
C5_GoBackRendersStored ==
    (last.op = "POST" /\ last.request.POST.prev \in DOMAIN wizard.form_list.forms) =>
        LET P == last.request.POST.prev
        IN  /\ After.current_step = P
            /\ last.resp.kind = "render"
            /\ last.resp.form_step = P
            /\ last.resp.form.step = P
            /\ last.resp.form.data = Before.step_data[P]

\* a go-back from the last step to the first, whose data was stored
C5_Witness ==
    /\ last.op = "POST"
    /\ NumSteps >= 3
    /\ last.request.POST.prev = wizard.form_list.keyOrder[1]
    /\ Before.current_step = wizard.form_list.keyOrder[NumSteps]
    /\ Before.step_data[wizard.form_list.keyOrder[1]] # NoData
    /\ After.current_step = wizard.form_list.keyOrder[1]

\* C6: a go-back request naming an unconfigured step does not fail: it is
\* answered by the default handling of the current step, and current_step
\* is never set to the unconfigured name.
C6_UnconfiguredGoBackFallsThrough ==
    (last.op = "POST" /\ last.request.POST.prev = Unconfigured) =>
        /\ last.resp.kind # "error"
        /\ After.current_step # Unconfigured
        /\ After.extra_context = Before.extra_context

\* C7: go_back called directly with a step that is not configured fails
\* and leaves current_step unchanged; only for a configured step does it
\* set current_step.
C7_GoBackRejectsUnconfigured ==
    (/\ last.op = "render_backward"
     /\ last.request.POST.prev \notin DOMAIN wizard.form_list.forms) =>
        /\ last.resp.kind = "error"
        /\ After.current_step = Before.current_step

\* C8: after a GET request determine_current_step() returns first_step()
\* and get_step_data returns none for every configured step.
C8_GetResets ==
    last.op = "GET" =>
        /\ CurrentOf(After) = wizard.form_list.keyOrder[1]
        /\ \A step \in DOMAIN wizard.form_list.forms : After.step_data[step] = NoData

\* C9: a request of one session never changes the run state of another
\* session, however the handling of two requests is interleaved.
C9_SessionsIsolated ==
    last.op # "init" =>
        \A s \in Sessions \ {last.session} : storage[s] = last.pre[s]

\* the Step Identifier of the i-th entry of the constructor's form_list
EntryId(i) ==
    IF wizard.input[i].tuple THEN wizard.input[i].name ELSE ToString(i - 1)

\* C10: configuring fails when the step sequence is empty and when two
\* entries share a Step Identifier; no wizard with fewer configured steps
\* than entries is produced.
C10_ConfigurationRejected ==
    wizard.status # "unconfigured" =>
        /\ Len(wizard.input) = 0 => wizard.status # "ok"
        /\ (\E i, j \in 1..Len(wizard.input) : i # j /\ EntryId(i) = EntryId(j))
               => wizard.status # "ok"
        /\ wizard.status = "ok" =>
               Len(wizard.form_list.keyOrder) = Len(wizard.input)

\* C11: update_extra_context(patch) stores the stored mapping overridden by
\* patch: every key of patch gets patch's value, every other stored key
\* keeps its value; {x:1} updated with {y:2} and then {x:3} is {x:3, y:2}.
C11_ExtraContextMerge ==
    last.op = "update_extra_context" =>
        LET patch == last.request.arg
        IN  /\ \A k \in DOMAIN patch :
                  After.extra_context[k] =
                      IF patch[k] # None THEN patch[k] ELSE Before.extra_context[k]
            /\ After.current_step = Before.current_step
            /\ After.step_data = Before.step_data
            /\ (/\ Before.extra_context = [x |-> "1", y |-> "2"]
                /\ patch = [x |-> "3", y |-> None])
                   => After.extra_context = [x |-> "3", y |-> "2"]

\* the stored {x:1, y:2} updated with {x:3}
C11_Witness ==
    /\ last.op = "update_extra_context"
    /\ Before.extra_context = [x |-> "1", y |-> "2"]
    /\ last.request.arg = [x |-> "3", y |-> None]
    /\ After.extra_context = [x |-> "3", y |-> "2"]

\* C12: for every configured step list and every configured step s,
\* first_step() and last_step() are the first and last elements,
\* next_step(s) is the step at position step_index(s)+1 or none for the
\* last step, previous_step(s) the step at position step_index(s)-1 or
\* none for the first step.
C12_StepAdjacency ==
    wizard.status = "ok" =>
        LET order == wizard.form_list.keyOrder
            n == Len(order)
            rs == storage[User]
        IN  /\ n >= 1
            /\ GetFirstStep(wizard) = order[1]
            /\ GetLastStep(wizard) = order[n]
            /\ \A i \in 1..n :
                  /\ GetStepIndex(wizard, rs, order[i]) = i - 1
                  /\ GetNextStep(wizard, rs, order[i]) =
                         IF i = n THEN None
                         ELSE order[GetStepIndex(wizard, rs, order[i]) + 2]
                  /\ GetPrevStep(wizard, rs, order[i]) =
                         IF i = 1 THEN None
                         ELSE order[GetStepIndex(wizard, rs, order[i])]
                  /\ i < n => GetStepIndex(wizard, rs,
                                           GetNextStep(wizard, rs, order[i])) = i

\* a constructed wizard of three steps, one keyed by its position
C12_Witness ==
    /\ wizard.status = "ok"
    /\ Len(wizard.form_list.keyOrder) = 3
    /\ ~wizard.input[2].tuple
    /\ GetNextStep(wizard, storage[User], wizard.form_list.keyOrder[3]) = None
    /\ GetPrevStep(wizard, storage[User], wizard.form_list.keyOrder[2])
           = wizard.form_list.keyOrder[1]

\* raw data validated directly against the specification of a step
DirectlyCleaned(step, raw) ==
    CleanedData([step |-> step, cls |-> wizard.form_list.forms[step],
                 data |-> [prev |-> None, prefix |-> step, value |-> raw]])

\* C13: after a valid submission of step S, cleaned_data_for_step(S) is
\* the cleaned data of validating the same raw data directly against S's
\* specification; the call returns none when S's stored data is invalid or
\* absent and when S is not configured, and never changes the run state.
C13_CleanedDataRoundTrip ==
    /\ last.op = "get_cleaned_data_for_step" =>
          LET S == last.request.arg
              v == last.resp.value
          IN  /\ After = Before
              /\ S \notin DOMAIN wizard.form_list.forms => v = PyNone
              /\ S \in DOMAIN wizard.form_list.forms =>
                    IF StoredValid(Before, S)
                    THEN v = DirectlyCleaned(S, Before.step_data[S].value)
                    ELSE v = PyNone
    /\ (/\ last.op = "POST"
        /\ CurrentOf(Before) \in DOMAIN wizard.form_list.forms
        /\ SubmissionValid(last.request.POST, CurrentOf(Before))) =>
          GetCleanedDataForStep(wizard, After, CurrentOf(Before)).resp.value
              = DirectlyCleaned(CurrentOf(Before), last.request.POST.value)

\* the cleaned data of a stored integer step asked for: the int, not the text
C13_Witness ==
    /\ last.op = "get_cleaned_data_for_step"
    /\ last.request.arg \in DOMAIN wizard.form_list.forms
    /\ wizard.form_list.forms[last.request.arg] = "IntForm"
    /\ last.resp.value = PyDict([field |-> PyInt(7)])

C15_NoAdvancePastLast ==
    /\ (/\ last.op = "POST"
        /\ CurrentOf(Before) = wizard.form_list.keyOrder[NumSteps]
        /\ SubmissionValid(last.request.POST, CurrentOf(Before))) =>
          After.current_step = Before.current_step
    /\ (/\ last.op = "render_next_step"
        /\ CurrentOf(Before) = wizard.form_list.keyOrder[NumSteps]) =>
          /\ After.current_step = Before.current_step
          /\ CurrentOf(After) = wizard.form_list.keyOrder[NumSteps]

\* C16: a non-GET request that is not a go-back is handled by the view
\* registered in step_handlers for the wizard's current step, the first
\* configured step when storage holds no current_step; the default handler
\* is invoked only when no view is registered for that current step.
C16_HandlerOfCurrentStep ==
    (/\ last.op = "POST"
     /\ last.request.POST.prev \notin DOMAIN wizard.form_list.forms) =>
        LET registered == DOMAIN last.request.step_views
            current == CurrentOf(Before)
        IN  IF current \in registered
            THEN /\ last.resp.kind = "custom"
                 /\ last.resp.view = last.request.step_views[current]
            ELSE last.resp.kind # "custom"

\* C17: a successful finalize (every step valid, completion handler invoked)
\* writes nothing to storage: current_step and the step_data of every step
\* are unchanged; and a repeated valid submission of the last step, all
\* steps stored valid, invokes the completion handler again.
C17_FinalizeWritesNothing ==
    /\ last.resp.kind = "done" => After = Before
    /\ (/\ last.op = "POST"
        /\ last.request.POST.prev \notin DOMAIN wizard.form_list.forms
        /\ CurrentOf(Before) = wizard.form_list.keyOrder[NumSteps]
        /\ SubmissionValid(last.request.POST, CurrentOf(Before))
        /\ \A i \in 1..NumSteps :
              StoredValid(Before, wizard.form_list.keyOrder[i])) =>
          last.resp.kind = "done"

\* C17: a direct finalize succeeded
C17_Witness ==
    /\ last.op = "render_done"
    /\ last.resp.kind = "done"
    /\ NumSteps >= 2

\* C18: a go-back request naming a configured step changes only
\* current_step: the step_data of every step and extra_context are
\* unchanged, and the field values submitted in the same request for the
\* step being left are not stored, even when they are valid.
C18_GoBackChangesOnlyCurrentStep ==
    (/\ last.op = "POST"
     /\ last.request.POST.prev \in DOMAIN wizard.form_list.forms) =>
        /\ After.step_data = Before.step_data
        /\ After.extra_context = Before.extra_context
        /\ After.current_step = last.request.POST.prev
        /\ After.step_data[CurrentOf(Before)] # last.request.POST

\* C18: a go-back that carries valid field values for the step being left,
\* in a run with stored data and extra context
C18_Witness ==
    /\ last.op = "POST"
    /\ last.request.POST.prev \in DOMAIN wizard.form_list.forms
    /\ last.request.POST.prev # CurrentOf(Before)
    /\ SubmissionValid(last.request.POST, CurrentOf(Before))
    /\ Before.extra_context # NoContext
    /\ \E k \in DOMAIN Before.step_data : Before.step_data[k] # NoData
    /\ After.current_step = last.request.POST.prev

\* the configured positions whose stored data validates
ValidSteps(rs) ==
    {i \in 1..NumSteps : StoredValid(rs, wizard.form_list.keyOrder[i])}

\* whether the step at a position is a formset
IsFormsetStep(i) ==
    wizard.form_list.forms[wizard.form_list.keyOrder[i]] = "FormSet"

\* C19: all_cleaned_data() returns the merge, in configured step order, of
\* the cleaned data of exactly those steps whose stored data validates:
\* invalid or never-submitted steps contribute nothing and raise no error, a
\* step whose cleaned data is a list is inserted under formset-<step>
\* instead of being merged flatly, and the call never changes the run state.
C19_AllCleanedData ==
    last.op = "get_all_cleaned_data" =>
        LET flat == {i \in ValidSteps(Before) : ~IsFormsetStep(i)}
            sets == {i \in ValidSteps(Before) : IsFormsetStep(i)}
            latest == CHOOSE i \in flat : \A j \in flat : j <= i
            key(i) == wizard.form_list.keyOrder[i]
            cleaned(i) == DirectlyCleaned(key(i), Before.step_data[key(i)].value)
            v == last.resp.value
        IN  /\ After = Before
            /\ last.resp.kind = "value"
            /\ v.type = "dict"
            /\ DOMAIN v.rows[1] =
                  (IF flat = {} THEN {} ELSE {"field"})
                     \cup {"formset-" \o key(i) : i \in sets}
            /\ flat # {} => v.rows[1]["field"] = cleaned(latest).rows[1].field
            /\ \A i \in sets :
                  /\ v.rows[1]["formset-" \o key(i)].type = "list"
                  /\ v.rows[1]["formset-" \o key(i)] = cleaned(i)

\* C19: the data of a text step, an integer step and a formset step merged,
\* the later integer step deciding the shared field
C19_Witness ==
    /\ last.op = "get_all_cleaned_data"
    /\ NumSteps = 3
    /\ ValidSteps(Before) = {1, 2, 3}
    /\ DOMAIN last.resp.value.rows[1] = {"field", "formset-c"}
    /\ last.resp.value.rows[1]["field"] = PyInt(7)

\* C20: for every request handled by the dispatch entry point (GET, go-back,
\* valid or invalid submission, finalize success or revalidation failure),
\* storage.update_response is called once on the resulting response, after
\* the storage mutations of the request, and its result is what is returned.
C20_ResponseUpdated ==
    last.op \in {"GET", "POST"} =>
        /\ last.resp.kind # "error"
        /\ last.resp.updated

\* C20: a go-back answered through update_response
C20_Witness ==
    /\ last.op = "POST"
    /\ last.request.POST.prev \in DOMAIN wizard.form_list.forms
    /\ last.resp.kind = "render"
    /\ last.resp.updated

====
